---- MODULE Spec2Model ----
(***************************************************************************)
(* Model of the Celeritas Python bindings (celeritas.py): the NoteEvent    *)
(* dataclass and the ornament expansions Trill.expand and Mordent.expand.  *)
(*                                                                         *)
(* The expansions compute with Python floats (IEEE-754 binary64).  A float *)
(* is modelled exactly: a sign and a fixed-point magnitude held in limbs,  *)
(* every arithmetic result rounded to 53 significant bits, ties to even.   *)
(***************************************************************************)
EXTENDS Integers, Sequences, FiniteSets, TLC

(***************************************************************************)
(* Bounds of the model.                                                    *)
(***************************************************************************)
MaxTimeNum == 1
MaxTimeDen == 3
MaxDurNum == 1
MaxDurDen == 4
MaxSpeed == 3
MaxAlt == 2
MaxNotes == 14
\* the fixed-point window of a float magnitude: one integer limb and
\* FracLimbs fractional limbs of LimbBits bits each
LimbBits == 24
FracLimbs == 3
\* the module-level functions: list lengths, shifts, output sizes
MaxListLen == 2
MaxSemitones == 2
MaxPitches == 3
MaxWraps == 1

\* significant bits of a Python float (binary64)
MantBits == 53

(***************************************************************************)
(* Python float arithmetic.                                                *)
(***************************************************************************)
Base == 2^LimbBits
NumLimbs == FracLimbs + 1

\* A result the fixed-point window cannot hold: evaluating it is an error
\* in TLC, so no run silently computes with a wrong float.
OutOfWindow == CHOOSE x \in {} : TRUE

Abs(a) == IF a < 0 THEN -a ELSE a

MagZero == [k \in 1..NumLimbs |-> 0]

IntToMag(a) == IF a < Base THEN [k \in 1..NumLimbs |-> IF k = 1 THEN a ELSE 0]
               ELSE OutOfWindow

MagIsZero(x) == \A k \in 1..NumLimbs : x[k] = 0

MagLess(x, y) == \E k \in 1..NumLimbs :
                    /\ x[k] < y[k]
                    /\ \A j \in 1..(k-1) : x[j] = y[j]

RECURSIVE MagAddFrom(_, _, _, _, _)
MagAddFrom(x, y, k, carry, acc) ==
    IF k = 0 THEN (IF carry = 0 THEN acc ELSE OutOfWindow)
    ELSE LET s == x[k] + y[k] + carry
         IN MagAddFrom(x, y, k - 1, s \div Base, <<s % Base>> \o acc)

MagAdd(x, y) == MagAddFrom(x, y, NumLimbs, 0, <<>>)

\* x - y for x >= y
RECURSIVE MagSubFrom(_, _, _, _, _)
MagSubFrom(x, y, k, borrow, acc) ==
    IF k = 0 THEN (IF borrow = 0 THEN acc ELSE OutOfWindow)
    ELSE LET d == x[k] - y[k] - borrow
         IN MagSubFrom(x, y, k - 1, IF d < 0 THEN 1 ELSE 0,
                       <<IF d < 0 THEN d + Base ELSE d>> \o acc)

MagSub(x, y) == MagSubFrom(x, y, NumLimbs, 0, <<>>)

\* long division of a magnitude by a small positive integer:
\* the quotient cut to the window, and whether anything was cut off
RECURSIVE MagDivFrom(_, _, _, _, _)
MagDivFrom(x, n, k, rem, acc) ==
    IF k > NumLimbs THEN [q |-> acc, sticky |-> rem # 0]
    ELSE LET cur == rem * Base + x[k]
         IN MagDivFrom(x, n, k + 1, cur % n, Append(acc, cur \div n))

MagDiv(x, n) == MagDivFrom(x, n, 1, 0, <<>>)

\* Bits are numbered from the least significant bit of the window (bit 0).
LimbOf(i) == NumLimbs - (i \div LimbBits)
BitAt(x, i) == (x[LimbOf(i)] \div 2^(i % LimbBits)) % 2
LowNonzero(x, i) == \/ x[LimbOf(i)] % 2^(i % LimbBits) # 0
                    \/ \E k \in (LimbOf(i)+1)..NumLimbs : x[k] # 0
Truncate(x, i) == [k \in 1..NumLimbs |->
                     IF k < LimbOf(i) THEN x[k]
                     ELSE IF k = LimbOf(i) THEN x[k] - (x[k] % 2^(i % LimbBits))
                     ELSE 0]
UnitAt(i) == [k \in 1..NumLimbs |-> IF k = LimbOf(i) THEN 2^(i % LimbBits) ELSE 0]
Log2(l) == CHOOSE o \in 0..(LimbBits-1) : 2^o <= l /\ l < 2^(o+1)
HighBit(x) == LET k == CHOOSE j \in 1..NumLimbs :
                           x[j] # 0 /\ \A i \in 1..(j-1) : x[i] = 0
              IN (NumLimbs - k) * LimbBits + Log2(x[k])

\* round to nearest, ties to even, at MantBits significant bits
Round(x, sticky) ==
    IF MagIsZero(x) THEN (IF sticky THEN OutOfWindow ELSE x)
    ELSE LET cut == HighBit(x) - (MantBits - 1)
         IN IF cut <= 0 THEN (IF sticky THEN OutOfWindow ELSE x)
            ELSE LET r  == BitAt(x, cut - 1)
                     st == sticky \/ LowNonzero(x, cut - 1)
                     t  == Truncate(x, cut)
                 IN IF r = 1 /\ (st \/ BitAt(x, cut) = 1)
                    THEN MagAdd(t, UnitAt(cut)) ELSE t

Float(neg, m) == [neg |-> neg /\ ~MagIsZero(m), m |-> m]

\* int / int (true division) and float / int; the divisor is not 0
IntDiv(a, b) == LET d == MagDiv(IntToMag(Abs(a)), Abs(b))
                IN Float((a < 0) # (b < 0), Round(d.q, d.sticky))

FloatDivInt(x, n) == LET d == MagDiv(x.m, Abs(n))
                     IN Float(x.neg # (n < 0), Round(d.q, d.sticky))

FloatAdd(x, y) ==
    IF x.neg = y.neg THEN Float(x.neg, Round(MagAdd(x.m, y.m), FALSE))
    ELSE IF MagLess(x.m, y.m) THEN Float(y.neg, Round(MagSub(y.m, x.m), FALSE))
    ELSE Float(x.neg, Round(MagSub(x.m, y.m), FALSE))

FloatLess(x, y) ==
    IF x.neg /\ ~y.neg THEN TRUE
    ELSE IF ~x.neg /\ y.neg THEN FALSE
    ELSE IF x.neg THEN MagLess(y.m, x.m)
    ELSE MagLess(x.m, y.m)

\* int(x * 4): the product is exact, int() truncates toward zero
IntTimes4(x) == LET f == x.m[1] * 4 + (x.m[2] \div (Base \div 4))
                IN IF x.neg THEN -f ELSE f


FloatOf(a) == Float(a < 0, IntToMag(Abs(a)))

(***************************************************************************)
(* The program state.                                                      *)
(***************************************************************************)
VARIABLES
    base,     \* the NoteEvent the host constructed, or NoNote
    orn,      \* the ornament object decorating it, or NoOrn
    pc,       \* "idle", "loop" (inside Trill.expand), "returned", "raised"
    error,    \* the exception a raised call ended with
    notes,    \* the list `notes` of the running call; returned at the end
    locals,   \* the local variables of the running Trill.expand
    call      \* a call of a module-level function: arguments, outcome

vars == <<base, orn, pc, error, notes, locals, call>>

NoNote == [id |-> -1]
NoOrn == [class |-> "none"]
NoLocals == [use_upper |-> FALSE]
NoCall == [fn |-> "none"]

Pitches == {0, 64, 127, 128}
Velocities == {80, 128}
TimeNums == 0..MaxTimeNum
TimeDens == 0..MaxTimeDen
DurNums == 0..MaxDurNum
DurDens == 0..MaxDurDen
Intervals == {-1, 1, 2}
Speeds == -1..MaxSpeed
Alternations == -1..MaxAlt

\* class MordentType(Enum)
UPPER == "UPPER"
LOWER == "LOWER"
MordentTypes == {UPPER, LOWER}

\* The dataclass-generated NoteEvent.__init__: it stores its arguments.
\* `self` is the identity of the new object.
NoteEvent(self, pitch, time_num, time_den, dur_num, dur_den, velocity) ==
    [id |-> self,
     pitch |-> pitch,
     time_numerator |-> time_num,
     time_denominator |-> time_den,
     duration_numerator |-> dur_num,
     duration_denominator |-> dur_den,
     velocity |-> velocity]

\* the properties NoteEvent.time and NoteEvent.duration; each raises
\* ZeroDivisionError when its denominator is 0
time(n) == IntDiv(n.time_numerator, n.time_denominator)
duration(n) == IntDiv(n.duration_numerator, n.duration_denominator)

\* faulty variant: an object that is already alive is handed out again
NewIdReused(live) == IF live = {} THEN 0 ELSE CHOOSE i \in live : TRUE

\* The identity of a newly created object: one no live object has.
NewId(live) == CHOOSE i \in 0..Cardinality(live) :
                   i \notin live /\ \A j \in 0..(i-1) : j \in live

\* the objects alive beside a list of notes: the base note and the list's notes
Ids(ns) == {ns[k].id : k \in 1..Len(ns)}
LiveIds(b, ns) == (IF b = NoNote THEN {} ELSE {b.id}) \cup Ids(ns)

\* Trill.__init__ and Mordent.__init__: they store their arguments
Trill(base_note, interval, speed, start_with_upper, end_with_turn) ==
    [class |-> "Trill", base_note |-> base_note.id, interval |-> interval,
     speed |-> speed, start_with_upper |-> start_with_upper,
     end_with_turn |-> end_with_turn]

Mordent(base_note, mordent_type, interval, alternations) ==
    [class |-> "Mordent", base_note |-> base_note.id, type |-> mordent_type,
     interval |-> interval, alternations |-> alternations]

Init ==
    /\ base = NoNote
    /\ orn = NoOrn
    /\ pc = "idle"
    /\ error = "none"
    /\ notes = <<>>
    /\ locals = NoLocals
    /\ call = NoCall

NewNoteEvent ==
    /\ base = NoNote
    /\ \E p \in Pitches, tn \in TimeNums, td \in TimeDens,
          dn \in DurNums, dd \in DurDens, v \in Velocities :
          base' = NoteEvent(NewId(LiveIds(base, notes)), p, tn, td, dn, dd, v)
    /\ UNCHANGED <<orn, pc, error, notes, locals, call>>

NewTrill ==
    /\ base # NoNote
    /\ orn = NoOrn
    /\ \E i \in Intervals, s \in Speeds, u \in BOOLEAN, e \in BOOLEAN :
          orn' = Trill(base, i, s, u, e)
    /\ UNCHANGED <<base, pc, error, notes, locals, call>>

NewMordent ==
    /\ base # NoNote
    /\ orn = NoOrn
    /\ \E k \in MordentTypes, i \in Intervals, a \in Alternations :
          orn' = Mordent(base, k, i, a)
    /\ UNCHANGED <<base, pc, error, notes, locals, call>>

Raise(exc) ==
    /\ pc' = "raised"
    /\ error' = exc
    /\ notes' = <<>>
    /\ locals' = NoLocals

\* faulty variant: end_with_turn read as if it were start_with_upper
TrillLocalsTurn(b, o) ==
    [note_duration |-> FloatDivInt(FloatOf(1), o.speed * 4),
     upper_pitch |-> b.pitch + o.interval,
     current_time |-> time(b),
     end_time |-> FloatAdd(time(b), duration(b)),
     use_upper |-> o.start_with_upper \/ o.end_with_turn]

\* the local variables of Trill.expand when the loop is reached (lines 301-307)
TrillLocals(b, o) ==
    [note_duration |-> FloatDivInt(FloatOf(1), o.speed * 4),
     upper_pitch |-> b.pitch + o.interval,
     current_time |-> time(b),
     end_time |-> FloatAdd(time(b), duration(b)),
     use_upper |-> o.start_with_upper]

\* the divisions of lines 301-305 that raise ZeroDivisionError
TrillRaises(b, o) ==
    o.speed * 4 = 0 \/ b.time_denominator = 0 \/ b.duration_denominator = 0

\* Trill.expand up to the loop (lines 300-307)
TrillExpandEnter ==
    /\ orn.class = "Trill"
    /\ pc \in {"idle", "returned", "raised"}
    /\ IF TrillRaises(base, orn)
       THEN Raise("ZeroDivisionError")
       ELSE /\ pc' = "loop"
            /\ error' = "none"
            /\ notes' = <<>>
            /\ locals' = TrillLocals(base, orn)
    /\ UNCHANGED <<base, orn, call>>

\* faulty variant: the comparison of the loop condition turned round
WhileCondReversed(l) == FloatLess(l.end_time, l.current_time)

\* `while current_time < end_time` (line 309)
WhileCond(l) == FloatLess(l.current_time, l.end_time)

\* faulty variant: the two pitches exchanged
TrillPitchSwapped(l, b) == IF l.use_upper THEN b.pitch ELSE l.upper_pitch

\* `pitch = upper_pitch if use_upper else self.base_note.pitch` (line 310)
TrillPitch(l, b) == IF l.use_upper THEN l.upper_pitch ELSE b.pitch

\* the loop body: the note appended (lines 311-320), the locals after it
\* (lines 321-322)
TrillNote(b, o, l, ns) ==
    NoteEvent(NewId(LiveIds(b, ns)), TrillPitch(l, b),
              IntTimes4(l.current_time), 4, 1, o.speed * 4, b.velocity)

TrillAdvance(l) ==
    [l EXCEPT !.current_time = FloatAdd(l.current_time, l.note_duration),
              !.use_upper = ~l.use_upper]

\* One iteration of the loop (lines 309-322).  The list of the model holds
\* MaxNotes notes at most.  Past that, an iteration is followed only where
\* note_duration is negative: the cursor then moves away from end_time, so
\* the loop condition stays true whatever the cursor's value, and neither
\* the further notes nor the further values of the cursor are recorded.
TrillLoop ==
    /\ pc = "loop"
    /\ WhileCond(locals)
    /\ IF Len(notes) < MaxNotes
       THEN /\ notes' = Append(notes, TrillNote(base, orn, locals, notes))
            /\ locals' = TrillAdvance(locals)
       ELSE /\ locals.note_duration.neg
            /\ notes' = notes
            /\ locals' = [locals EXCEPT !.use_upper = ~locals.use_upper]
    /\ UNCHANGED <<base, orn, pc, error, call>>

\* the loop condition is false: `return notes` (line 324)
TrillReturn ==
    /\ pc = "loop"
    /\ ~WhileCond(locals)
    /\ pc' = "returned"
    /\ locals' = NoLocals
    /\ UNCHANGED <<base, orn, error, notes, call>>

\* Trill.expand as a function of the base note and the ornament: the loop
\* run from locals l and list ns until its condition fails (or, where it
\* does not fail, as far as MaxNotes notes), and the call as a whole
RECURSIVE TrillRun(_, _, _, _)
TrillRun(b, o, l, ns) ==
    IF ~WhileCond(l) THEN [pc |-> "returned", notes |-> ns]
    ELSE IF Len(ns) >= MaxNotes THEN [pc |-> "loop", notes |-> ns]
    ELSE TrillRun(b, o, TrillAdvance(l), Append(ns, TrillNote(b, o, l, ns)))

TrillExpand(b, o) ==
    IF TrillRaises(b, o) THEN [pc |-> "raised", notes |-> <<>>]
    ELSE TrillRun(b, o, TrillLocals(b, o), <<>>)

\* `note_count = 2 * self.alternations + 1` (line 346)
NoteCount(o) == 2 * o.alternations + 1

\* neighbor_pitch (lines 349-353)
NeighborPitch(b, o) == IF o.type = UPPER THEN b.pitch + o.interval
                       ELSE b.pitch - o.interval

\* faulty variant: the neighbour on the even indices
MordentPitchOddBase(b, neighbor_pitch, i) == IF i % 2 = 1 THEN b.pitch ELSE neighbor_pitch

\* `pitch = self.base_note.pitch if i % 2 == 0 else neighbor_pitch` (line 358)
MordentPitch(b, neighbor_pitch, i) == IF i % 2 = 0 THEN b.pitch ELSE neighbor_pitch

\* the for loop of Mordent.expand (lines 357-369), from index i on
RECURSIVE MordentNotes(_, _, _, _, _, _, _)
MordentNotes(b, neighbor_pitch, note_count, note_duration, i, current_time, acc) ==
    IF i >= note_count THEN acc
    ELSE MordentNotes(b, neighbor_pitch, note_count, note_duration, i + 1,
             FloatAdd(current_time, note_duration),
             Append(acc,
                NoteEvent(NewId(LiveIds(b, acc)),
                          MordentPitch(b, neighbor_pitch, i),
                          IntTimes4(current_time), 4,
                          IntTimes4(note_duration), 4,
                          b.velocity)))

\* Mordent.expand (lines 345-371)
MordentExpand ==
    /\ orn.class = "Mordent"
    /\ pc \in {"idle", "returned", "raised"}
    /\ IF base.duration_denominator = 0 \/ base.time_denominator = 0
       THEN Raise("ZeroDivisionError")
       ELSE LET note_count == NoteCount(orn)
                note_duration == FloatDivInt(duration(base), note_count)
                neighbor_pitch == NeighborPitch(base, orn)
            IN /\ notes' = MordentNotes(base, neighbor_pitch, note_count,
                                        note_duration, 0, time(base), <<>>)
               /\ pc' = "returned"
               /\ error' = "none"
               /\ locals' = NoLocals
    /\ UNCHANGED <<base, orn, call>>

Next ==
    \/ NewNoteEvent
    \/ NewTrill
    \/ NewMordent
    \/ TrillExpandEnter
    \/ TrillLoop
    \/ TrillReturn
    \/ MordentExpand

Spec == Init /\ [][Next]_vars

(***************************************************************************)
(* The module-level functions.  A call is a record: the function, its      *)
(* arguments (the caller's objects), and once it has ended how it ended,   *)
(* what the native library did in it, and its result.                      *)
(***************************************************************************)
NoNative == [invoked |-> FALSE]
NoResult == [kind |-> "none"]
NoneValue == [kind |-> "None"]
StrValue(t) == [kind |-> "str", value |-> t]
ListValue(l) == [kind |-> "list", value |-> l]
TupleValue(a, b) == [kind |-> "tuple", value |-> <<a, b>>]

Called(fn, args) ==
    [fn |-> fn, args |-> args, state |-> "called",
     native |-> NoNative, result |-> NoResult]
Returns(c, native, result) ==
    [c EXCEPT !.state = "returned", !.native = native, !.result = result]
Raises(c, exc) ==
    [c EXCEPT !.state = "raised", !.result = [kind |-> "raise", value |-> exc]]

\* _NOTE_NAMES_SHARP and _NOTE_NAMES_FLAT (lines 17-19)
NOTE_NAMES_SHARP ==
    <<"C", "C#", "D", "D#", "E", "F", "F#", "G", "G#", "A", "A#", "B">>
NOTE_NAMES_FLAT ==
    <<"C", "Db", "D", "Eb", "E", "F", "Gb", "G", "Ab", "A", "Bb", "B">>

\* faulty variant: octave numbering that starts at C0 = 0
OctaveFromZero(pitch) == pitch \div 12

\* `octave = (pitch // 12) - 1` (line 184)
Octave(pitch) == (pitch \div 12) - 1

\* midi_to_note_name (lines 179-185); the f-string joins the name and the
\* decimal text of the octave
midi_to_note_name(c) ==
    LET pitch == c.args.pitch
        names == IF c.args.prefer_flats THEN NOTE_NAMES_FLAT ELSE NOTE_NAMES_SHARP
        pitch_class == pitch % 12
    IN IF ~(0 <= pitch /\ pitch <= 127) THEN Raises(c, "ValueError")
       ELSE Returns(c, NoNative,
                    StrValue(names[pitch_class + 1] \o ToString(Octave(pitch))))

\* A Python int in a list or a semitones argument: the integer
\* wraps * 2^32 + low, with low in the range of a c_int.
PyInt(wraps, low) == [wraps |-> wraps, low |-> low]

\* An int stored into a ctypes.c_int, or passed for a c_int parameter:
\* ctypes keeps its low 32 bits and reports no overflow.
c_int(x) == x.low

\* `(ctypes.c_int * n)(*pitches)`: a new array holding the list's values
\* as c_int (lines 163, 207, 236)
CArray(pitches) == [k \in 1..Len(pitches) |-> c_int(pitches[k])]

\* `list(pitch_array)` (line 165): the c_int elements as Python ints
ListOf(arr) == [k \in 1..Len(arr) |-> PyInt(0, arr[k])]

\* The native celeritas_transpose, whose code is not among the sources: by
\* its contract it shifts the n elements of the array in place by
\* `semitones`, without clamping.
celeritas_transpose(arr, n, semitones) ==
    [k \in 1..Len(arr) |-> IF k <= n THEN arr[k] + semitones ELSE arr[k]]

\* transpose (lines 162-165)
transpose(c) ==
    LET n == Len(c.args.pitches)
        pitch_array ==
            celeritas_transpose(CArray(c.args.pitches), n, c_int(c.args.semitones))
    IN Returns(c, [invoked |-> TRUE], ListValue(ListOf(pitch_array)))

\* What a native call that reports through out-parameters may do, as far
\* as its ctypes declaration says: any truth value of the returned byte,
\* any text in the buffer, any integers in the out-parameters.
BufferTexts == {"", "C", "Am7"}
IdentifyOutcomes ==
    {[invoked |-> TRUE, success |-> ok, buffer |-> t] :
        ok \in BOOLEAN, t \in BufferTexts}
DetectOutcomes ==
    {[invoked |-> TRUE, success |-> ok, buffer |-> t, is_major |-> m] :
        ok \in BOOLEAN, t \in BufferTexts, m \in {0, 1}}
ParseOutcomes(max_pitches) ==
    {[invoked |-> TRUE, success |-> ok, out_count |-> cnt,
      out_array |-> [k \in 1..max_pitches |-> IF k <= filled THEN 59 + k ELSE 0]] :
        ok \in BOOLEAN, cnt \in -1..(max_pitches + 1), filled \in 0..max_pitches}

\* identify_chord (lines 206-213)
identify_chord(c, native) ==
    IF native.success THEN Returns(c, native, StrValue(native.buffer))
    ELSE Returns(c, native, StrValue("Unknown"))

\* detect_key (lines 235-245)
detect_key(c, native) ==
    IF native.success
    THEN Returns(c, native, TupleValue(native.buffer, native.is_major # 0))
    ELSE Returns(c, native, TupleValue("C", TRUE))

\* faulty variant: as many elements as the count says, whatever the array holds
SliceUnclipped(arr, stop) ==
    [k \in 1..(IF stop < 0 THEN 0 ELSE stop) |-> IF k <= Len(arr) THEN arr[k] ELSE 0]

\* `list(out_array)[: out_count.value]` (line 277): a Python slice
Slice(arr, stop) ==
    LET n == Len(arr)
        end == IF stop < 0 THEN (IF n + stop < 0 THEN 0 ELSE n + stop)
               ELSE (IF stop > n THEN n ELSE stop)
    IN [k \in 1..end |-> arr[k]]

\* faulty variant: the size is looked at before the symbol
parse_chord_symbol_size_first(c) ==
    IF c.args.max_pitches <= 0 THEN Returns(c, NoNative, ListValue(<<>>))
    ELSE IF c.args.symbol = NoneValue THEN Returns(c, NoNative, NoneValue)
    ELSE Called(c.fn, c.args)

\* parse_chord_symbol before the native call (lines 259-262): the call
\* ended, or still to be made
parse_chord_symbol_guards(c) ==
    IF c.args.symbol = NoneValue THEN Returns(c, NoNative, NoneValue)
    ELSE IF c.args.max_pitches <= 0 THEN Returns(c, NoNative, ListValue(<<>>))
    ELSE Called(c.fn, c.args)

\* parse_chord_symbol (lines 259-277)
parse_chord_symbol(c, native) ==
    IF parse_chord_symbol_guards(c).state # "called" THEN parse_chord_symbol_guards(c)
    ELSE IF ~native.success THEN Returns(c, native, NoneValue)
    ELSE Returns(c, native, ListValue(Slice(native.out_array, native.out_count)))

MidiPitches == -2..129
Wraps == 0..MaxWraps
ListPitches == {PyInt(w, p) : w \in Wraps, p \in {0, 60, 127}}
PitchLists == UNION {[1..n -> ListPitches] : n \in 0..MaxListLen}
Semitones == {PyInt(w, t) : w \in Wraps, t \in -MaxSemitones..MaxSemitones}
Symbols == {NoneValue, StrValue(""), StrValue("C7")}
MaxPitchesArgs == -1..MaxPitches

CallInputs ==
    {Called("midi_to_note_name", [pitch |-> p, prefer_flats |-> f]) :
        p \in MidiPitches, f \in BOOLEAN}
    \cup {Called("transpose", [pitches |-> l, semitones |-> t]) :
        l \in PitchLists, t \in Semitones}
    \cup {Called("identify_chord", [pitches |-> l]) : l \in PitchLists}
    \cup {Called("detect_key", [pitches |-> l]) : l \in PitchLists}
    \cup {Called("parse_chord_symbol", [symbol |-> y, max_pitches |-> m]) :
        y \in Symbols, m \in MaxPitchesArgs}

\* a host that calls one module-level function
InitCalls ==
    /\ base = NoNote
    /\ orn = NoOrn
    /\ pc = "idle"
    /\ error = "none"
    /\ notes = <<>>
    /\ locals = NoLocals
    /\ call \in CallInputs

Pending(fn) == call.fn = fn /\ call.state = "called"

MidiToNoteName ==
    /\ Pending("midi_to_note_name")
    /\ call' = midi_to_note_name(call)
    /\ UNCHANGED <<base, orn, pc, error, notes, locals>>

Transpose ==
    /\ Pending("transpose")
    /\ call' = transpose(call)
    /\ UNCHANGED <<base, orn, pc, error, notes, locals>>

IdentifyChord ==
    /\ Pending("identify_chord")
    /\ \E native \in IdentifyOutcomes : call' = identify_chord(call, native)
    /\ UNCHANGED <<base, orn, pc, error, notes, locals>>

DetectKey ==
    /\ Pending("detect_key")
    /\ \E native \in DetectOutcomes : call' = detect_key(call, native)
    /\ UNCHANGED <<base, orn, pc, error, notes, locals>>

ParseChordSymbol ==
    /\ Pending("parse_chord_symbol")
    /\ \E native \in ParseOutcomes(call.args.max_pitches) :
          call' = parse_chord_symbol(call, native)
    /\ UNCHANGED <<base, orn, pc, error, notes, locals>>

NextCalls ==
    \/ MidiToNoteName
    \/ Transpose
    \/ IdentifyChord
    \/ DetectKey
    \/ ParseChordSymbol

SpecCalls == InitCalls /\ [][NextCalls]_vars

(***************************************************************************)
(* Vocabulary of the properties.                                           *)
(***************************************************************************)
\* a NoteEvent that satisfies the invariants the specification states
ValidNote(n) ==
    /\ n.pitch \in 0..127
    /\ n.velocity \in 0..127
    /\ n.time_denominator > 0
    /\ n.duration_numerator > 0
    /\ n.duration_denominator > 0

MordentReturned == orn.class = "Mordent" /\ pc = "returned"
TrillReturned == orn.class = "Trill" /\ pc = "returned"

\* exact rationals a/b (b > 0) as pairs, kept in lowest terms
RECURSIVE GCD(_, _)
GCD(a, b) == IF b = 0 THEN a ELSE GCD(b, a % b)
Rat(a, b) == LET g == GCD(Abs(a), b) IN [n |-> a \div g, d |-> b \div g]
RatAdd(x, y) == Rat(x.n * y.d + y.n * x.d, x.d * y.d)
RatLess(x, y) == x.n * y.d < y.n * x.d
RatLeq(x, y) == x.n * y.d <= y.n * x.d
NoteTime(n) == Rat(n.time_numerator, n.time_denominator)
NoteDuration(n) == Rat(n.duration_numerator, n.duration_denominator)

RECURSIVE SumDurations(_)
SumDurations(ns) == IF ns = <<>> THEN Rat(0, 1)
                    ELSE RatAdd(NoteDuration(Head(ns)), SumDurations(Tail(ns)))

(***************************************************************************)
(* C1: for a valid base note with pitch p and a Mordent with interval      *)
(* i >= 1 and alternations a >= 1, expand returns exactly 2a+1 notes; the  *)
(* notes at even index have pitch p, those at odd index the neighbour      *)
(* pitch, p+i for Upper and p-i for Lower.                                 *)
(***************************************************************************)
C1_MordentCase ==
    /\ MordentReturned
    /\ ValidNote(base)
    /\ orn.interval >= 1
    /\ orn.alternations >= 1

C1_MordentPitches ==
    C1_MordentCase =>
        /\ Len(notes) = 2 * orn.alternations + 1
        /\ \A k \in 0..(Len(notes) - 1) :
              notes[k + 1].pitch =
                  IF k % 2 = 0 THEN base.pitch
                  ELSE IF orn.type = UPPER THEN base.pitch + orn.interval
                  ELSE base.pitch - orn.interval

C1_Witness ==
    /\ C1_MordentCase
    /\ orn.type = LOWER
    /\ orn.alternations = 2
    /\ base.pitch = 64
    /\ Len(notes) = 5

(***************************************************************************)
(* C2: for a valid base note of duration D and a Mordent with              *)
(* alternations a >= 1, the durations of the notes expand returns sum to   *)
(* D exactly.                                                              *)
(***************************************************************************)
C2_DurationsSumToBase ==
    (MordentReturned /\ ValidNote(base) /\ orn.alternations >= 1) =>
        SumDurations(notes) = NoteDuration(base)

(***************************************************************************)
(* C3: for a valid base note (start t0, duration D, velocity v) and        *)
(* alternations a >= 1, the note at index k returned by Mordent.expand has *)
(* time t0 + k*D/(2a+1), duration D/(2a+1) and velocity v, exactly.        *)
(***************************************************************************)
C3_MordentTiling ==
    (MordentReturned /\ ValidNote(base) /\ orn.alternations >= 1) =>
        \A k \in 0..(Len(notes) - 1) :
            LET per == Rat(base.duration_numerator,
                           base.duration_denominator * (2 * orn.alternations + 1))
            IN /\ NoteDuration(notes[k + 1]) = per
               /\ NoteTime(notes[k + 1]) =
                     RatAdd(NoteTime(base), Rat(k * per.n, per.d))
               /\ notes[k + 1].velocity = base.velocity

(***************************************************************************)
(* C4: for a valid base note with pitch p and a Trill with interval i and  *)
(* speed s >= 1, the first note emitted has pitch p when start_with_upper  *)
(* is false and p+i when it is true, and every later note has the other    *)
(* one of the two pitches than the note before it.                         *)
(***************************************************************************)
C4_TrillCase ==
    /\ orn.class = "Trill"
    /\ pc \in {"loop", "returned"}
    /\ ValidNote(base)
    /\ orn.speed >= 1

C4_TrillAlternates ==
    (C4_TrillCase /\ notes # <<>>) =>
        /\ notes[1].pitch = IF orn.start_with_upper
                            THEN base.pitch + orn.interval ELSE base.pitch
        /\ \A k \in 1..(Len(notes) - 1) :
              notes[k + 1].pitch = IF notes[k].pitch = base.pitch
                                   THEN base.pitch + orn.interval
                                   ELSE base.pitch

C4_Witness ==
    /\ C4_TrillCase
    /\ pc = "returned"
    /\ orn.start_with_upper
    /\ orn.interval = 2
    /\ base.pitch = 64
    /\ Len(notes) >= 4

(***************************************************************************)
(* C5: for a valid base note (duration D > 0) and speed s >= 1,            *)
(* Trill.expand returns a non-empty list whose emitted times never         *)
(* decrease from a note to the next.                                       *)
(***************************************************************************)
C5_TrillCase == TrillReturned /\ ValidNote(base) /\ orn.speed >= 1

C5_TrillChronological ==
    C5_TrillCase =>
        /\ Len(notes) >= 1
        /\ \A k \in 1..(Len(notes) - 1) :
              RatLeq(NoteTime(notes[k]), NoteTime(notes[k + 1]))

C5_Witness ==
    /\ C5_TrillCase
    /\ Len(notes) >= 3
    /\ RatLess(NoteTime(notes[1]), NoteTime(notes[Len(notes)]))

(***************************************************************************)
(* C6: for a valid base note (start t0, duration D > 0) and speed s >= 1,  *)
(* the notes Trill.expand returns cover the base span and overshoot it by  *)
(* less than one subdivision: D <= sum of durations < D + 1/(4s), and no   *)
(* emitted note starts at or after t0 + D.                                 *)
(***************************************************************************)
C6_TrillCoversSpan ==
    C5_TrillCase =>
        /\ RatLeq(NoteDuration(base), SumDurations(notes))
        /\ RatLess(SumDurations(notes),
                   RatAdd(NoteDuration(base), Rat(1, 4 * orn.speed)))
        /\ \A k \in 1..Len(notes) :
              RatLess(NoteTime(notes[k]),
                      RatAdd(NoteTime(base), NoteDuration(base)))

(***************************************************************************)
(* C7: Trill.expand called with speed <= 0, or with a base note of         *)
(* duration D <= 0, fails with an error before any note is emitted: it     *)
(* never returns a list and never emits a note.                            *)
(***************************************************************************)
C7_TrillFailsFast ==
    (/\ orn.class = "Trill"
     /\ \/ orn.speed <= 0
        \/ base.duration_denominator > 0 /\ base.duration_numerator <= 0)
    => (pc # "returned" /\ notes = <<>>)

(***************************************************************************)
(* C8: constructing a NoteEvent with pitch or velocity outside [0,127] or  *)
(* with a duration numerator or denominator <= 0 yields no NoteEvent.      *)
(***************************************************************************)
C8_NoteEventValidated ==
    base # NoNote =>
        /\ base.pitch \in 0..127
        /\ base.velocity \in 0..127
        /\ base.duration_numerator > 0
        /\ base.duration_denominator > 0

(***************************************************************************)
(* C9: Mordent.expand called with alternations a < 1 or interval i < 0 is  *)
(* rejected: it never returns a note list for such parameters.             *)
(***************************************************************************)
C9_MordentRejects ==
    (orn.class = "Mordent" /\ (orn.alternations < 1 \/ orn.interval < 0))
    => pc # "returned"

(***************************************************************************)
(* C10: no step of Trill.expand or Mordent.expand changes the base note or *)
(* the ornament's parameters, and every note of the list is an object of   *)
(* its own: none is the base note, no two are the same object.             *)
(***************************************************************************)
C10_ExpandFrame ==
    [][orn.class # "none" =>
         /\ base' = base
         /\ orn' = orn
         /\ \A k \in 1..Len(notes') :
               /\ notes'[k].id # base'.id
               /\ \A j \in 1..(k - 1) : notes'[j].id # notes'[k].id]_vars

C10_Witness ==
    /\ pc = "returned"
    /\ ValidNote(base)
    /\ Len(notes) >= 3
    /\ \E k \in 1..Len(notes) : notes[k].pitch = base.pitch

(***************************************************************************)
(* C11: end_with_turn has no effect on the expansion: for every base note, *)
(* interval, speed and start_with_upper, Trill.expand with end_with_turn   *)
(* true ends the same way, with the same notes, as with end_with_turn      *)
(* false.  (The second conjunct ties the function compared here to the     *)
(* steps of the call: what the steps end with is what it yields.)          *)
(***************************************************************************)
C11_EndWithTurnIgnored ==
    orn.class = "Trill" =>
        /\ pc = "idle" =>
             TrillExpand(base, [orn EXCEPT !.end_with_turn = TRUE])
               = TrillExpand(base, [orn EXCEPT !.end_with_turn = FALSE])
        /\ pc \in {"returned", "raised"} =>
             TrillExpand(base, orn) = [pc |-> pc, notes |-> notes]

C11_Witness ==
    /\ TrillReturned
    /\ orn.end_with_turn
    /\ ~orn.start_with_upper
    /\ ValidNote(base)
    /\ Len(notes) >= 2

(***************************************************************************)
(* The module-level functions: a call that has ended.                      *)
(***************************************************************************)
Ended(fn) == call.fn = fn /\ call.state \in {"returned", "raised"}

(***************************************************************************)
(* C12: for every integer pitch, midi_to_note_name returns, when           *)
(* 0 <= pitch <= 127, the name of pitch class (pitch mod 12) from the      *)
(* sharp table (the flat table when prefer_flats is true) followed by the  *)
(* octave number floor(pitch/12) - 1, so that 60 gives C4, 48 gives C3 and *)
(* 72 gives C5; outside [0,127] it raises ValueError and returns no name.  *)
(***************************************************************************)
C12_MidiToNoteName ==
    Ended("midi_to_note_name") =>
        LET pitch == call.args.pitch
            table == IF call.args.prefer_flats
                     THEN <<"C", "Db", "D", "Eb", "E", "F", "Gb", "G", "Ab", "A", "Bb", "B">>
                     ELSE <<"C", "C#", "D", "D#", "E", "F", "F#", "G", "G#", "A", "A#", "B">>
            floor12 == CHOOSE q \in -1..11 : 12 * q <= pitch /\ pitch < 12 * (q + 1)
            octaves == [o \in -1..9 |->
                          IF o = -1 THEN "-1"
                          ELSE <<"0", "1", "2", "3", "4", "5", "6", "7", "8", "9">>[o + 1]]
        IN /\ pitch \in 0..127 =>
                /\ call.state = "returned"
                /\ call.result = StrValue(table[(pitch - 12 * floor12) + 1]
                                            \o octaves[floor12 - 1])
                /\ pitch = 60 => call.result.value = "C4"
                /\ pitch = 48 => call.result.value = "C3"
                /\ pitch = 72 => call.result.value = "C5"
           /\ pitch \notin 0..127 =>
                /\ call.state = "raised"
                /\ call.result = [kind |-> "raise", value |-> "ValueError"]

C12_Witness ==
    /\ Ended("midi_to_note_name")
    /\ call.args.pitch = 61
    /\ call.args.prefer_flats
    /\ call.result = StrValue("Db4")

(***************************************************************************)
(* C13, as the specification states it: parse_chord_symbol returns None    *)
(* whenever the symbol is absent or empty, for every value of max_pitches  *)
(* including max_pitches <= 0, and never a pitch list.                     *)
(***************************************************************************)
C13_NoneForAbsentOrEmpty ==
    (/\ Ended("parse_chord_symbol")
     /\ call.args.symbol \in {NoneValue, StrValue("")})
        => call.result = NoneValue

(***************************************************************************)
(* C13, as the code has it: parse_chord_symbol returns None whenever the   *)
(* symbol is absent (None), for every value of max_pitches including       *)
(* max_pitches <= 0, and without a native call.  For an empty symbol it    *)
(* returns the empty list when max_pitches <= 0, and when max_pitches > 0  *)
(* it returns None exactly when the native call reports failure.           *)
(***************************************************************************)
C13_NoneForAbsent ==
    Ended("parse_chord_symbol") =>
        /\ call.args.symbol = NoneValue =>
             /\ call.state = "returned"
             /\ call.result = NoneValue
             /\ ~call.native.invoked
        /\ call.args.symbol = StrValue("") =>
             /\ call.state = "returned"
             /\ call.args.max_pitches <= 0 => call.result = ListValue(<<>>)
             /\ call.args.max_pitches > 0 =>
                  /\ call.native.invoked
                  /\ call.result = NoneValue <=> ~call.native.success

C13_Witness ==
    /\ Ended("parse_chord_symbol")
    /\ call.args.symbol = NoneValue
    /\ call.args.max_pitches <= 0
    /\ call.result = NoneValue

(***************************************************************************)
(* C14, as the specification states it: parse_chord_symbol called with     *)
(* max_pitches <= 0 yields an empty pitch sequence without error and       *)
(* without a native call; and for max_pitches > 0 the returned list never  *)
(* has more than max_pitches elements, whatever count the native call      *)
(* reports.                                                                *)
(***************************************************************************)
C14_EmptyForNonPositive ==
    Ended("parse_chord_symbol") =>
        /\ call.args.max_pitches <= 0 =>
             /\ call.state = "returned"
             /\ call.result = ListValue(<<>>)
             /\ ~call.native.invoked
        /\ (call.args.max_pitches > 0 /\ call.result.kind = "list") =>
             Len(call.result.value) <= call.args.max_pitches

(***************************************************************************)
(* C14, as the code has it: parse_chord_symbol called with a symbol that   *)
(* is not None and max_pitches <= 0 yields an empty pitch sequence without *)
(* error and without a native call; and for max_pitches > 0 the returned   *)
(* list never has more than max_pitches elements, whatever count the       *)
(* native call reports.                                                    *)
(***************************************************************************)
C14_EmptyForNonPositiveWithSymbol ==
    Ended("parse_chord_symbol") =>
        /\ (call.args.max_pitches <= 0 /\ call.args.symbol # NoneValue) =>
             /\ call.state = "returned"
             /\ call.result = ListValue(<<>>)
             /\ ~call.native.invoked
        /\ (call.args.max_pitches > 0 /\ call.result.kind = "list") =>
             Len(call.result.value) <= call.args.max_pitches

C14_Witness ==
    /\ Ended("parse_chord_symbol")
    /\ call.args.max_pitches > 0
    /\ call.native.invoked
    /\ call.native.success
    /\ call.native.out_count > call.args.max_pitches
    /\ call.result.kind = "list"
    /\ Len(call.result.value) = call.args.max_pitches

(***************************************************************************)
(* The sum of two Python ints whose low parts add up within the range of a *)
(* c_int, as all those of the input sets do.                               *)
(***************************************************************************)
PyAdd(x, y) == PyInt(x.wraps + y.wraps, x.low + y.low)

(***************************************************************************)
(* C15: for every list of pitches and every integer semitones, transpose   *)
(* returns a list of the same length whose k-th element is                 *)
(* pitches[k] + semitones, with no clamping to [0,127]; the caller's list  *)
(* is the same after the call as before it; and transpose by 0 returns a   *)
(* list equal to the input.                                                *)
(***************************************************************************)
C15_TransposeShifts ==
    [][(Pending("transpose") /\ call'.state # "called") =>
          LET pitches == call.args.pitches
              semitones == call.args.semitones
          IN /\ call'.state = "returned"
             /\ call'.result.kind = "list"
             /\ Len(call'.result.value) = Len(pitches)
             /\ \A k \in 1..Len(pitches) :
                    call'.result.value[k] = PyAdd(pitches[k], semitones)
             /\ call'.args.pitches = pitches
             /\ semitones = PyInt(0, 0) => call'.result.value = pitches]_vars

(***************************************************************************)
(* C16: when a native call reports failure, the wrapper hands the caller   *)
(* an explicit no-result value and never an answer of its own: after a     *)
(* failed native call detect_key does not return a key (so not             *)
(* ("C", True)) and identify_chord does not return a chord text.           *)
(***************************************************************************)
C16_FailureSurfaced ==
    (/\ call.state \in {"returned", "raised"}
     /\ call.fn \in {"identify_chord", "detect_key", "parse_chord_symbol"}
     /\ call.native.invoked
     /\ ~call.native.success)
        => call.result = NoneValue

(***************************************************************************)
(* C17: for a valid base note (start t0) and speed s >= 1, the k-th note   *)
(* (k = 0, 1, ...) that Trill.expand returns has time exactly              *)
(* t0 + k/(4s), duration exactly 1/(4s) and the base note's velocity, so   *)
(* that consecutive notes have strictly increasing times.                  *)
(***************************************************************************)
C17_TrillCursorTimes ==
    C5_TrillCase =>
        /\ \A k \in 1..Len(notes) :
              /\ NoteTime(notes[k])
                   = RatAdd(NoteTime(base), Rat(k - 1, 4 * orn.speed))
              /\ NoteDuration(notes[k]) = Rat(1, 4 * orn.speed)
              /\ notes[k].velocity = base.velocity
        /\ \A k \in 1..(Len(notes) - 1) :
              RatLess(NoteTime(notes[k]), NoteTime(notes[k + 1]))

(***************************************************************************)
(* C18: every NoteEvent that Trill.expand or Mordent.expand returns, for a *)
(* valid base note and valid ornament parameters (speed >= 1,              *)
(* alternations >= 1, interval >= 1), satisfies the NoteEvent invariants:  *)
(* pitch and velocity in [0,127], time and duration denominators > 0, and  *)
(* duration > 0.                                                           *)
(***************************************************************************)
C18_ExpandedNotesValid ==
    (/\ pc = "returned"
     /\ ValidNote(base)
     /\ orn.interval >= 1
     /\ orn.class = "Trill" => orn.speed >= 1
     /\ orn.class = "Mordent" => orn.alternations >= 1)
        => \A k \in 1..Len(notes) : ValidNote(notes[k])

(***************************************************************************)
(* A call of expand that has begun runs on: the interpreter takes the next *)
(* turn of the loop, or the return, whenever there is one to take.         *)
(***************************************************************************)
HeldNotes ==
    {NoteEvent(0, 64, 0, 1, dn, dd, 80) : dn \in DurNums, dd \in DurDens}

\* a host that holds a base note, builds an ornament on it and expands it
InitHeld ==
    /\ base \in HeldNotes
    /\ orn = NoOrn
    /\ pc = "idle"
    /\ error = "none"
    /\ notes = <<>>
    /\ locals = NoLocals
    /\ call = NoCall

NextHeld ==
    \/ NewTrill
    \/ NewMordent
    \/ TrillExpandEnter
    \/ TrillLoop
    \/ TrillReturn
    \/ MordentExpand

FairSpec ==
    InitHeld /\ [][NextHeld]_vars /\ WF_vars(TrillLoop) /\ WF_vars(TrillReturn)

(***************************************************************************)
(* C19: every call of Trill.expand and of Mordent.expand eventually ends,  *)
(* by returning or by raising, after finitely many notes, for every base   *)
(* note and every integer speed, interval and alternations.                *)
(* (Mordent.expand is one step of the model: its loop runs note_count      *)
(* times.  A call of Trill.expand is in its loop while pc = "loop".)       *)
(***************************************************************************)
C19_ExpandTerminates == (pc = "loop") ~> (pc \in {"returned", "raised"})

====
